---- MODULE Spec2Model ----
(***************************************************************************)
(* A model of skll/learner/utils.py and skll/config/utils.py.              *)
(*                                                                         *)
(* Real numbers are modelled as integers ("ticks"); np.mean and np.std     *)
(* round down, a z-score keeps ZScale fractional units.  The three IEEE    *)
(* values a division by a zero SD produces are NaN, PosInf and NegInf.     *)
(***************************************************************************)
EXTENDS Integers, Sequences, FiniteSets, TLC

(***************************************************************************)
(* Bounds of the model.                                                    *)
(***************************************************************************)
MaxTrain == 2
MaxPred == 1
MaxApply == 2
NumSamples == 4
MaxLabels == 2
MaxNumbers == 2
MaxMetrics == 2
MaxExamples == 2
MaxDim == 2

(***************************************************************************)
(* State.                                                                  *)
(***************************************************************************)
\* rescaled
VARIABLES
  cls,      \* cls[c]: [marker: the class has the attribute rescale,
            \*          wraps: method -> number of wrappers around the original]
  applied,  \* applied[c]: how often rescaled(c) was called
  est,      \* the estimator instance of class Reg
  lastFit,  \* the most recent fit of est: its flags, the statistics of its data
  ret       \* the last call and what it returned or raised

rvars == <<cls, applied, est, lastFit, ret>>

\* FilteredLeaveOneGroupOut
VARIABLES
  splitter,     \* [keep, example_ids, warned: _warned, warnings: number of warnings logged]
  gen,          \* the running split generator: [active, groups, todo: groups still to hold out]
  fold,         \* the fold yielded last
  removedEver   \* some fold computed so far had an index removed

svars == <<splitter, gen, fold, removedEver>>

\* the metric families of skll.utils.constants and the resolver's last call
VARIABLES
  families,  \* [classification, unweighted, weighted, correlation]: sets of metric names
  mret       \* the last call of the resolver or of the contiguity check

mvars == <<families, mret>>

\* the metric registry and the validator's last call
VARIABLES
  SCORERS,  \* the names the registry maps
  pret      \* the last call of _parse_and_validate_metrics

pvars == <<SCORERS, pret>>

\* the learner train_and_score is given and the call's own values
VARIABLES
  learner,  \* [kind: _estimator_type of its model, label_list, label_dict]
  tret      \* the last call of train_and_score: its arguments and local values

tvars == <<learner, tret>>

\* a Densifier pipeline stage and the last call of one of its methods
VARIABLES
  densifier,  \* the attributes of the stage
  dret        \* the last call and what it returned

dvars == <<densifier, dret>>

vars == <<rvars, svars, mvars, pvars, tvars, dvars>>

LabelVals == {0, 10}
PredVals == {-5, 5, 15}

SeqsUpTo(S, n) == UNION {[1..k -> S] : k \in 1..n}

(***************************************************************************)
(* Numbers.                                                                *)
(***************************************************************************)
None == -100000
NaN == 100000
PosInf == 90000
NegInf == -90000
ZScale == 100

IsFinite(x) == x # NaN /\ x # PosInf /\ x # NegInf

\* Python's a < b on floats: every comparison with nan is False
Lt(a, b) == a # NaN /\ b # NaN /\ a < b

\* builtin min(a, b): b only when b < a
PyMin2(a, b) == IF Lt(b, a) THEN b ELSE a

\* builtin max(a, b): b only when b > a
PyMax2(a, b) == IF Lt(a, b) THEN b ELSE a

RECURSIVE SeqSum(_)
SeqSum(s) == IF s = <<>> THEN 0 ELSE Head(s) + SeqSum(Tail(s))

RECURSIVE SeqSumSq(_)
SeqSumSq(s) == IF s = <<>> THEN 0 ELSE Head(s) * Head(s) + SeqSumSq(Tail(s))

RECURSIVE PyMin(_)
PyMin(s) == IF Len(s) = 1 THEN s[1] ELSE PyMin2(PyMin(Tail(s)), Head(s))

RECURSIVE PyMax(_)
PyMax(s) == IF Len(s) = 1 THEN s[1] ELSE PyMax2(PyMax(Tail(s)), Head(s))

ISqrt(n) == CHOOSE r \in 0..n : r * r <= n /\ (r + 1) * (r + 1) > n

NpMean(s) == SeqSum(s) \div Len(s)

NpStd(s) == ISqrt((Len(s) * SeqSumSq(s) - SeqSum(s) * SeqSum(s)) \div (Len(s) * Len(s)))

(***************************************************************************)
(* rescaled(cls): the classes, the decorator, one estimator instance.      *)
(***************************************************************************)
Classes == {"Reg", "Clf"}

EstimatorType(c) == IF c = "Clf" THEN "classifier" ELSE "regressor"

Methods == {"init", "fit", "predict", "get_param_names"}

NoCall == [op |-> "none"]

PlainClass == [marker |-> FALSE, wraps |-> [m \in Methods |-> 0]]

WrappedClass(k) ==
  [marker |-> TRUE, wraps |-> [m \in Methods |-> k.wraps[m] + 1]]

\* rescaled(cls) without the already-decorated test
RescaledNoGuard(k, etype) ==
  IF etype = "classifier"
  THEN [k |-> k, outcome |-> "ValueError"]
  ELSE [k |-> WrappedClass(k), outcome |-> "returned"]

\* rescaled(cls) overriding the functions before the classifier test
RescaledPatchFirst(k, etype) ==
  IF k.marker THEN [k |-> k, outcome |-> "returned"]
  ELSE IF etype = "classifier"
       THEN [k |-> WrappedClass(k), outcome |-> "ValueError"]
       ELSE [k |-> WrappedClass(k), outcome |-> "returned"]

\* rescaled(cls): the class it leaves behind and how the call ends
Rescaled(k, etype) ==
  IF k.marker THEN [k |-> k, outcome |-> "returned"]
  ELSE IF etype = "classifier"
       THEN [k |-> k, outcome |-> "ValueError"]
       ELSE [k |-> WrappedClass(k), outcome |-> "returned"]

\* what init leaves in the instance
InitEst(constrain, rescale) ==
  [exists |-> TRUE, constrain |-> constrain, rescale |-> rescale,
   y_min |-> None, y_max |-> None, yhat_mean |-> None, yhat_sd |-> None,
   y_mean |-> None, y_sd |-> None]

NoEst == [InitEst(FALSE, FALSE) EXCEPT !.exists = FALSE]

\* the z-score transformation of predict, one prediction
RescaleOne(p, s) ==
  LET d == p - s.yhat_mean
      z == IF ~IsFinite(p) THEN p
           ELSE IF s.yhat_sd = 0
                THEN (IF d = 0 THEN NaN ELSE IF d > 0 THEN PosInf ELSE NegInf)
                ELSE (d * ZScale) \div s.yhat_sd
  IN IF z = NaN THEN NaN
     ELSE IF ~IsFinite(z) THEN (IF s.y_sd = 0 THEN NaN ELSE z)
     ELSE (z * s.y_sd) \div ZScale + s.y_mean

ClampOne(p, s) == PyMax2(s.y_min, PyMin2(s.y_max, p))

\* predict with the two steps swapped: constrain, then rescale
ClampThenRescale(res, s) ==
  LET r1 == IF s.constrain THEN [i \in DOMAIN res |-> ClampOne(res[i], s)] ELSE res
  IN IF s.rescale THEN [i \in DOMAIN r1 |-> RescaleOne(r1[i], s)] ELSE r1

\* the body of predict after orig_predict: rescale, then constrain
PostProcess(res, s) ==
  LET r1 == IF s.rescale THEN [i \in DOMAIN res |-> RescaleOne(res[i], s)] ELSE res
  IN IF s.constrain THEN [i \in DOMAIN r1 |-> ClampOne(r1[i], s)] ELSE r1

\* predict raises TypeError on a statistic that is still None
PredictRaises(s) ==
  \/ s.rescale /\ None \in {s.yhat_mean, s.yhat_sd, s.y_mean, s.y_sd}
  \/ s.constrain /\ None \in {s.y_min, s.y_max}

\* cls.predict with n wrappers around the original predict
RECURSIVE PredictLayers(_, _, _)
PredictLayers(n, raw, s) ==
  IF n = 0 THEN raw ELSE PostProcess(PredictLayers(n - 1, raw, s), s)

\* the body of fit after orig_fit; y_hat is what orig_predict returns
FitBody(s, y, y_hat) ==
  LET s1 == IF s.constrain
            THEN [s EXCEPT !.y_min = PyMin(y), !.y_max = PyMax(y)]
            ELSE s
  IN IF s.rescale
     THEN [s1 EXCEPT !.yhat_mean = NpMean(y_hat), !.yhat_sd = NpStd(y_hat),
                     !.y_mean = NpMean(y), !.y_sd = NpStd(y)]
     ELSE s1

\* what orig_predict may return on the training data after orig_fit(X, y):
\* a perfect fit, a constant model, a model shrinking towards 10
TrainPredictions(y) ==
  {y, [i \in DOMAIN y |-> 5], [i \in DOMAIN y |-> (y[i] + 10) \div 2]}

\* cls.fit with n wrappers around the original fit
RECURSIVE FitLayers(_, _, _, _)
FitLayers(n, s, y, y_hat) ==
  IF n = 0 THEN s
  ELSE LET s1 == FitLayers(n - 1, s, y, y_hat)
       IN FitBody(s1, y, PredictLayers(n - 1, y_hat, s1))

\* rescaled(c)
Decorate(c) ==
  /\ applied[c] < MaxApply
  /\ LET r == Rescaled(cls[c], EstimatorType(c))
     IN /\ cls' = [cls EXCEPT ![c] = r.k]
        /\ ret' = [op |-> "rescaled", cls |-> c, outcome |-> r.outcome,
                   before |-> cls[c]]
  /\ applied' = [applied EXCEPT ![c] = @ + 1]
  /\ UNCHANGED <<est, lastFit, svars, mvars, pvars, tvars, dvars>>

\* Reg(constrain=..., rescale=...): the decorated init
Construct(constrain, rescale) ==
  /\ cls["Reg"].wraps["init"] > 0
  /\ est' = InitEst(constrain, rescale)
  /\ lastFit' = NoCall
  /\ ret' = NoCall
  /\ UNCHANGED <<cls, applied, svars, mvars, pvars, tvars, dvars>>

\* est.set_params(constrain=..., rescale=...)
SetParams(constrain, rescale) ==
  /\ est.exists
  /\ est' = [est EXCEPT !.constrain = constrain, !.rescale = rescale]
  /\ ret' = NoCall
  /\ UNCHANGED <<cls, applied, lastFit, svars, mvars, pvars, tvars, dvars>>

\* est.fit(X, y), orig_predict(X) returning y_hat
Fit(y, y_hat) ==
  /\ est.exists
  /\ est' = FitLayers(cls["Reg"].wraps["fit"], est, y, y_hat)
  /\ lastFit' = [op |-> "fit", y_min |-> PyMin(y), y_max |-> PyMax(y),
                 yhat_mean |-> NpMean(y_hat), yhat_sd |-> NpStd(y_hat),
                 y_mean |-> NpMean(y), y_sd |-> NpStd(y),
                 constrain |-> est.constrain, rescale |-> est.rescale]
  /\ ret' = NoCall
  /\ UNCHANGED <<cls, applied, svars, mvars, pvars, tvars, dvars>>

\* est.predict(X), orig_predict(X) returning raw
Predict(raw) ==
  /\ est.exists
  /\ lastFit.op = "fit"
  /\ ret' = IF PredictRaises(est)
            THEN [op |-> "predict", raw |-> raw, outcome |-> "TypeError", res |-> <<>>]
            ELSE [op |-> "predict", raw |-> raw, outcome |-> "returned",
                  res |-> PredictLayers(cls["Reg"].wraps["predict"], raw, est)]
  /\ UNCHANGED <<cls, applied, est, lastFit, svars, mvars, pvars, tvars, dvars>>

(***************************************************************************)
(* Claims about rescaled.                                                  *)
(***************************************************************************)
\* the value predict clamps: the rescaled prediction, or the raw one
BeforeClamp(p) == IF est.rescale THEN RescaleOne(p, est) ELSE p

\* C1: with constrain set at the most recent fit and at predict, every value
\* predict returns is the (rescaled, else raw) prediction clamped into
\* [min, max] of the labels of that fit; a raw value above max gives max.
C1_PredictClampsLast ==
  (ret.op = "predict" /\ ret.outcome = "returned" /\ est.constrain /\ lastFit.constrain) =>
    \A i \in DOMAIN ret.res :
      LET p == BeforeClamp(ret.raw[i])
          lo == lastFit.y_min
          hi == lastFit.y_max
          out == ret.res[i]
      IN /\ lo <= out /\ out <= hi
         /\ (p # NaN /\ p > hi) => out = hi
         /\ (p # NaN /\ p < lo) => out = lo
         /\ (p # NaN /\ lo <= p /\ p <= hi) => out = p
         /\ (~est.rescale /\ ret.raw[i] > hi) => out = hi

\* C1 witness: fit on labels with min 0 and max 10, rescale off, raw 15 gives 10
C1_Witness ==
  /\ ret.op = "predict" /\ ret.outcome = "returned"
  /\ est.constrain /\ lastFit.constrain /\ ~est.rescale
  /\ lastFit.y_min = 0 /\ lastFit.y_max = 10
  /\ ret.raw = <<15>> /\ ret.res = <<10>>

\* C2 (as claimed): after any sequence of fits, also with the flags changed
\* between them, every statistic the instance holds was computed by the most
\* recent fit; none retains a value an earlier fit recorded.
C2_StatsFromLastFit ==
  lastFit.op = "fit" =>
    /\ est.y_min \in {None, lastFit.y_min}
    /\ est.y_max \in {None, lastFit.y_max}
    /\ est.yhat_mean \in {None, lastFit.yhat_mean}
    /\ est.yhat_sd \in {None, lastFit.yhat_sd}
    /\ est.y_mean \in {None, lastFit.y_mean}
    /\ est.y_sd \in {None, lastFit.y_sd}

\* C3: rescaled() applied to a classifier class raises ValueError on every
\* application and leaves the class as it was: no method and no marker replaced.
C3_ClassifierAlwaysRaises ==
  /\ cls["Clf"] = PlainClass
  /\ (ret.op = "rescaled" /\ ret.cls = "Clf") =>
       (ret.outcome = "ValueError" /\ ret.before = cls["Clf"])

\* C3 witness: a second application to the classifier, the regressor decorated before
C3_Witness ==
  /\ ret.op = "rescaled" /\ ret.cls = "Clf" /\ ret.outcome = "ValueError"
  /\ applied["Clf"] >= 2
  /\ cls["Reg"].marker

\* C4: rescaled() is idempotent: applied to a decorated class it returns the
\* class unchanged, so every method is wrapped exactly once and predict
\* rescales and clamps once.
C4_DecoratorIdempotent ==
  /\ \A c \in Classes : \A m \in Methods :
       cls[c].wraps[m] = IF cls[c].marker THEN 1 ELSE 0
  /\ (ret.op = "rescaled" /\ ret.before.marker) =>
       (ret.outcome = "returned" /\ cls[ret.cls] = ret.before)
  /\ (ret.op = "predict" /\ ret.outcome = "returned") =>
       ret.res = PostProcess(ret.raw, est)

\* C4 witness: a prediction, rescaled and clamped, after two applications
C4_Witness ==
  /\ applied["Reg"] >= 2
  /\ ret.op = "predict" /\ ret.outcome = "returned"
  /\ est.rescale /\ est.constrain
  /\ ret.res # ret.raw

(***************************************************************************)
(* FilteredLeaveOneGroupOut.  Row indices are 0-based as in the source; a  *)
(* Python list l is a sequence, l[i] being its element i + 1.              *)
(***************************************************************************)
IdNames == <<"A", "B", "C", "D", "E", "F">>

GroupLabels == {1, 2}

Rows == 0..(NumSamples - 1)

Range(q) == {q[j] : j \in DOMAIN q}

\* the elements of a set of integers in ascending order
RECURSIVE Ascending(_)
Ascending(S) ==
  IF S = {} THEN <<>>
  ELSE LET m == CHOOSE x \in S : \A z \in S : x <= z
       IN <<m>> \o Ascending(S \ {m})

\* the row-index -> example-ID lists the splitter is built with
ExampleIdLists ==
  {SubSeq(IdNames, 1, NumSamples),
   [j \in 1..NumSamples |-> IdNames[NumSamples + 1 - j]]}

\* the group arrays split accepts: LeaveOneGroupOut needs two groups or more
GroupArrays == {g \in [1..NumSamples -> GroupLabels] : Cardinality(Range(g)) >= 2}

NoGen == [active |-> FALSE, groups |-> <<>>, todo |-> <<>>]

\* LeaveOneGroupOut.split: the fold holding out group g
LogoTest(groups, g) == Ascending({i \in Rows : groups[i + 1] = g})

LogoTrain(groups, g) == Ascending({i \in Rows : groups[i + 1] # g})

\* [i for i in index if self.example_ids[i] in self.keep]
RECURSIVE KeepOnly(_, _, _)
KeepOnly(index, example_ids, keep) ==
  IF index = <<>> THEN <<>>
  ELSE (IF example_ids[Head(index) + 1] \in keep THEN <<Head(index)>> ELSE <<>>)
       \o KeepOnly(Tail(index), example_ids, keep)

\* the loop body of split warning in every fold that lost an index
FilterFoldWarnEach(s, train_index, test_index) ==
  LET train == KeepOnly(train_index, s.example_ids, s.keep)
      test == KeepOnly(test_index, s.example_ids, s.keep)
      warn == Len(train_index) # Len(train) \/ Len(test_index) # Len(test)
  IN [train |-> train, test |-> test,
      warned |-> s.warned \/ warn,
      warnings |-> IF warn THEN s.warnings + 1 ELSE s.warnings]

\* the loop body of split filtering the train indices only
FilterFoldTrainOnly(s, train_index, test_index) ==
  LET train == KeepOnly(train_index, s.example_ids, s.keep)
      warn == ~s.warned /\ Len(train_index) # Len(train)
  IN [train |-> train, test |-> test_index,
      warned |-> s.warned \/ warn,
      warnings |-> IF warn THEN s.warnings + 1 ELSE s.warnings]

\* the loop body of split: filter both lists, warn once, yield
FilterFold(s, train_index, test_index) ==
  LET train_len == Len(train_index)
      test_len == Len(test_index)
      train == KeepOnly(train_index, s.example_ids, s.keep)
      test == KeepOnly(test_index, s.example_ids, s.keep)
      warn == ~s.warned /\ (train_len # Len(train) \/ test_len # Len(test))
  IN [train |-> train, test |-> test,
      warned |-> s.warned \/ warn,
      warnings |-> IF warn THEN s.warnings + 1 ELSE s.warnings]

\* FilteredLeaveOneGroupOut(keep, example_ids)
NewSplitter(keep, example_ids) ==
  [keep |-> keep, example_ids |-> example_ids, warned |-> FALSE, warnings |-> 0]

\* splitter.split(X, y, groups): a new generator, nothing run yet
SplitStart(groups) ==
  /\ gen' = [active |-> TRUE, groups |-> groups, todo |-> Ascending(Range(groups))]
  /\ fold' = NoCall
  /\ UNCHANGED <<splitter, removedEver, rvars, mvars, pvars, tvars, dvars>>

\* next(generator): the next fold of the underlying splitter, filtered
NextFold ==
  /\ gen.active /\ gen.todo # <<>>
  /\ LET g == Head(gen.todo)
         train_index == LogoTrain(gen.groups, g)
         test_index == LogoTest(gen.groups, g)
         f == FilterFold(splitter, train_index, test_index)
         removed == \E i \in Range(train_index) \cup Range(test_index) :
                       splitter.example_ids[i + 1] \notin splitter.keep
     IN /\ splitter' = [splitter EXCEPT !.warned = f.warned, !.warnings = f.warnings]
        /\ fold' = [op |-> "yield", raw_train |-> train_index, raw_test |-> test_index,
                    train |-> f.train, test |-> f.test,
                    removed |-> removed, warnedBefore |-> splitter.warned]
        /\ removedEver' = (removedEver \/ removed)
  /\ gen' = [gen EXCEPT !.todo = Tail(@)]
  /\ UNCHANGED <<rvars, mvars, pvars, tvars, dvars>>

\* next(generator) after the last fold: the generator ends
SplitEnd ==
  /\ gen.active /\ gen.todo = <<>>
  /\ gen' = NoGen
  /\ fold' = NoCall
  /\ UNCHANGED <<splitter, removedEver, rvars, mvars, pvars, tvars, dvars>>

(***************************************************************************)
(* Claims about FilteredLeaveOneGroupOut.                                  *)
(***************************************************************************)
\* C5: the splitter warns at most once per instance, over all folds and all
\* split calls: exactly once if some fold had an index removed, never if
\* none had, and the warned flag is set exactly then.
C5_WarnsOnce ==
  /\ splitter.warnings = IF removedEver THEN 1 ELSE 0
  /\ splitter.warned = removedEver

\* C5 witness: a fold loses an index when the warning was already logged
C5_Witness ==
  /\ fold.op = "yield" /\ fold.removed /\ fold.warnedBefore
  /\ splitter.warnings = 1

\* out is the subsequence of raw, in raw's order, of the indices with a kept ID
IsKeptSubsequence(out, raw) ==
  /\ Range(out) = {i \in Range(raw) : splitter.example_ids[i + 1] \in splitter.keep}
  /\ \A a, b \in DOMAIN out : a < b =>
       \E x, z \in DOMAIN raw : x < z /\ raw[x] = out[a] /\ raw[z] = out[b]

\* C6: every yielded train and test list is exactly the subsequence, in the
\* original order, of the underlying list with the indices whose ID is kept.
C6_FoldsFiltered ==
  fold.op = "yield" =>
    /\ IsKeptSubsequence(fold.train, fold.raw_train)
    /\ IsKeptSubsequence(fold.test, fold.raw_test)

\* C6 witness: IDs [A,B,C,D], keep {A,C}, raw [0,1] / [2,3] gives [0] / [2]
C6_Witness ==
  /\ fold.op = "yield"
  /\ splitter.example_ids = <<"A", "B", "C", "D">> /\ splitter.keep = {"A", "C"}
  /\ fold.raw_train = <<0, 1>> /\ fold.raw_test = <<2, 3>>
  /\ fold.train = <<0>> /\ fold.test = <<2>>

(***************************************************************************)
(* contiguous_ints_or_floats and get_acceptable_classification_metrics.    *)
(* A number is counted in tenths, One being 1 (and 1.0); an element of a   *)
(* sequence is a number or a string (strings are numbered).                *)
(***************************************************************************)
One == 10

Num(t) == [kind |-> "num", v |-> t]

Str(k) == [kind |-> "str", v |-> k]

NumVals == {10, 11, 12, 13, 15, 20, 25, 30}

Elements == {Num(t) : t \in NumVals} \cup {Str(1), Str(2)}

\* the metric families of skll.utils.constants
MetricFamilies ==
  [classification |-> {"accuracy", "f1"},
   unweighted |-> {"unweighted_kappa"},
   weighted |-> {"linear_weighted_kappa", "quadratic_weighted_kappa"},
   correlation |-> {"pearson", "spearman", "kendall_tau"}]

\* np.mod(numbers, 1) raises TypeError on an array with a string in it
NotNumeric(numbers) == \E j \in DOMAIN numbers : numbers[j].kind = "str"

NpMod(numbers, m) == [j \in DOMAIN numbers |-> numbers[j].v % m]

NpDiff(numbers) == [j \in 1..(Len(numbers) - 1) |-> numbers[j + 1].v - numbers[j].v]

NpAllEqual(a, x) == \A j \in DOMAIN a : a[j] = x

\* contiguous_ints_or_floats without the integer test
ContiguousOnly(numbers) ==
  IF Len(numbers) = 0 THEN [outcome |-> "ValueError", value |-> FALSE]
  ELSE IF NotNumeric(numbers) THEN [outcome |-> "TypeError", value |-> FALSE]
  ELSE [outcome |-> "returned", value |-> NpAllEqual(NpDiff(numbers), One)]

\* contiguous_ints_or_floats(numbers)
ContiguousIntsOrFloats(numbers) ==
  IF Len(numbers) = 0 THEN [outcome |-> "ValueError", value |-> FALSE]
  ELSE IF NotNumeric(numbers) THEN [outcome |-> "TypeError", value |-> FALSE]
  ELSE LET ints_or_int_like_floats == NpAllEqual(NpMod(numbers, One), 0)
           contiguous == NpAllEqual(NpDiff(numbers), One)
       IN [outcome |-> "returned", value |-> ints_or_int_like_floats /\ contiguous]

\* the element types a label array can have
TextDtypes == {"str_", "object_"}

IntDtypes == {"int16", "int32", "int64"}

FloatDtypes == {"float32", "float64"}

\* issubclass(label_type, (np.object_, str))
IsStringType(dtype) == dtype \in {"object_", "str_"}

\* issubclass(label_type, (int, np.int32, np.int64, float, np.float32, np.float64))
IsIntOrFloatType(dtype) == dtype \in {"int32", "int64", "float32", "float64"}

\* the sorted arrays of unique labels, by element type
StrictlyAscending(q) == \A j \in 1..(Len(q) - 1) : q[j].v < q[j + 1].v

LabelArrays ==
  {a \in [dtype : TextDtypes \cup IntDtypes \cup FloatDtypes,
          vals : SeqsUpTo(Elements, MaxLabels)] :
     /\ StrictlyAscending(a.vals)
     /\ a.dtype \in TextDtypes => \A j \in DOMAIN a.vals : a.vals[j].kind = "str"
     /\ a.dtype \in FloatDtypes => \A j \in DOMAIN a.vals : a.vals[j].kind = "num"
     /\ a.dtype \in IntDtypes =>
          \A j \in DOMAIN a.vals : a.vals[j].kind = "num" /\ a.vals[j].v % One = 0}

\* get_acceptable_classification_metrics(label_array): the set it returns;
\* the union is a new set, so the updates leave the families alone
GetAcceptableClassificationMetrics(fam, label_array) ==
  LET acceptable_metrics == fam.classification \cup fam.unweighted
  IN IF IsStringType(label_array.dtype) THEN acceptable_metrics
     ELSE IF IsIntOrFloatType(label_array.dtype)
          THEN IF ContiguousIntsOrFloats(label_array.vals).value
               THEN acceptable_metrics \cup fam.correlation \cup fam.weighted
               ELSE acceptable_metrics \cup fam.correlation
          ELSE acceptable_metrics

\* a call of contiguous_ints_or_floats
CallContiguous(numbers) ==
  /\ LET r == ContiguousIntsOrFloats(numbers)
     IN mret' = [op |-> "contiguous", numbers |-> numbers,
                 outcome |-> r.outcome, value |-> r.value]
  /\ UNCHANGED <<families, rvars, svars, pvars, tvars, dvars>>

\* a call of get_acceptable_classification_metrics
CallAcceptable(label_array) ==
  /\ mret' = [op |-> "acceptable", label_array |-> label_array,
              outcome |-> "returned",
              value |-> GetAcceptableClassificationMetrics(families, label_array)]
  /\ UNCHANGED <<families, rvars, svars, pvars, tvars, dvars>>

(***************************************************************************)
(* Claims about the metric resolver and the contiguity check.              *)
(***************************************************************************)
\* C7 (as claimed): the resolver returns classification \cup unweighted for a
\* textual array, that \cup correlation for a numeric array that is not
\* contiguous, that \cup correlation \cup weighted for a contiguous numeric
\* array; no call alters the metric families.
C7_ResolverByLabelKind ==
  /\ families = MetricFamilies
  /\ mret.op = "acceptable" =>
       LET a == mret.label_array
           base == MetricFamilies.classification \cup MetricFamilies.unweighted
           contiguous == /\ \A j \in DOMAIN a.vals : a.vals[j].v % One = 0
                         /\ \A j \in 1..(Len(a.vals) - 1) : a.vals[j + 1].v - a.vals[j].v = One
       IN mret.value =
            IF a.dtype \in TextDtypes THEN base
            ELSE IF contiguous
                 THEN base \cup MetricFamilies.correlation \cup MetricFamilies.weighted
                 ELSE base \cup MetricFamilies.correlation

\* C8: contiguous_ints_or_floats raises ValueError for an empty sequence and
\* TypeError for one with a non-numeric element; otherwise it returns true
\* exactly when every fractional part is zero and every consecutive
\* difference is exactly 1.
C8_ContiguityCheck ==
  mret.op = "contiguous" =>
    LET q == mret.numbers
    IN IF q = <<>> THEN mret.outcome = "ValueError"
       ELSE IF \E j \in DOMAIN q : q[j].kind = "str" THEN mret.outcome = "TypeError"
       ELSE /\ mret.outcome = "returned"
            /\ mret.value =
                 (/\ \A j \in DOMAIN q : q[j].v % One = 0
                  /\ \A j \in DOMAIN q : j < Len(q) => q[j + 1].v - q[j].v = One)

\* C8 witness: [1.5, 2.5] has differences of 1 and is not contiguous
C8_Witness ==
  /\ mret.op = "contiguous"
  /\ mret.numbers = <<Num(15), Num(25)>>
  /\ mret.outcome = "returned" /\ mret.value = FALSE

(***************************************************************************)
(* _parse_and_validate_metrics.  The text of the option is a document: a   *)
(* flow list of words, each bare or quoted, or something that is no list.  *)
(***************************************************************************)
Words == {"f1", "accuracy", "mean_squared_error", "bogus", "True"}

Quotes == {"", "'"}

Tokens == [quote : Quotes, text : Words]

MetricTexts ==
  {[kind |-> "list", items |-> q] : q \in {<<>>} \cup SeqsUpTo(Tokens, MaxMetrics)}
  \cup {[kind |-> k, items |-> <<>>] : k \in {"scalar", "mapping", "null"}}

\* the names sklearn.metrics.SCORERS maps
ScorerNames == {"f1", "accuracy", "neg_mean_squared_error", "r2"}

\* fix_json: True -> true, False -> false, ' -> "
FixJson(doc) ==
  [doc EXCEPT !.items =
     [j \in DOMAIN doc.items |->
        [quote |-> IF doc.items[j].quote = "'" THEN "\"" ELSE doc.items[j].quote,
         text |-> IF doc.items[j].text = "True" THEN "true"
                  ELSE IF doc.items[j].text = "False" THEN "false"
                  ELSE doc.items[j].text]]]

\* yaml.safe_load: a bare true or false is a boolean, every other word a string
YamlSafeLoad(doc) ==
  [doc EXCEPT !.items =
     [j \in DOMAIN doc.items |->
        IF doc.items[j].quote = "" /\ doc.items[j].text \in {"true", "false"}
        THEN [type |-> "bool", v |-> doc.items[j].text]
        ELSE [type |-> "str", v |-> doc.items[j].text]]]

ParseMetrics(metrics) == YamlSafeLoad(FixJson(metrics))

InScorers(m, registry) == m.type = "str" /\ m.v \in registry

\* [metric for metric in metrics if metric not in SCORERS]
RECURSIVE InvalidMetrics(_, _)
InvalidMetrics(metrics, registry) ==
  IF metrics = <<>> THEN <<>>
  ELSE (IF InScorers(Head(metrics), registry) THEN <<>> ELSE <<Head(metrics)>>)
       \o InvalidMetrics(Tail(metrics), registry)

Deprecated == [type |-> "str", v |-> "mean_squared_error"]

Raised(error, names) == [outcome |-> error, value |-> <<>>, names |-> names]

\* the validator testing the registry before the deprecated name
ValidateRegistryFirst(parsed, registry) ==
  IF parsed.kind # "list" THEN Raised("TypeError", <<>>)
  ELSE IF InvalidMetrics(parsed.items, registry) # <<>>
       THEN Raised("ValueError: invalid", InvalidMetrics(parsed.items, registry))
  ELSE IF \E j \in DOMAIN parsed.items : parsed.items[j] = Deprecated
       THEN Raised("ValueError: deprecated", <<"neg_mean_squared_error">>)
  ELSE [outcome |-> "returned", value |-> parsed.items, names |-> <<>>]

\* the validator reporting the first unrecognized metric only
ValidateFirstInvalid(parsed, registry) ==
  IF parsed.kind # "list" THEN Raised("TypeError", <<>>)
  ELSE IF \E j \in DOMAIN parsed.items : parsed.items[j] = Deprecated
       THEN Raised("ValueError: deprecated", <<"neg_mean_squared_error">>)
  ELSE IF InvalidMetrics(parsed.items, registry) # <<>>
       THEN Raised("ValueError: invalid", <<Head(InvalidMetrics(parsed.items, registry))>>)
  ELSE [outcome |-> "returned", value |-> parsed.items, names |-> <<>>]

\* _parse_and_validate_metrics from the isinstance test on; names are the
\* names the error message gives
Validate(parsed, registry) ==
  IF parsed.kind # "list" THEN Raised("TypeError", <<>>)
  ELSE IF \E j \in DOMAIN parsed.items : parsed.items[j] = Deprecated
       THEN Raised("ValueError: deprecated", <<"neg_mean_squared_error">>)
  ELSE IF InvalidMetrics(parsed.items, registry) # <<>>
       THEN Raised("ValueError: invalid", InvalidMetrics(parsed.items, registry))
  ELSE [outcome |-> "returned", value |-> parsed.items, names |-> <<>>]

\* _parse_and_validate_metrics(metrics, option_name)
ParseAndValidateMetrics(metrics) ==
  /\ LET r == Validate(ParseMetrics(metrics), SCORERS)
     IN pret' = [op |-> "validate", metrics |-> metrics, outcome |-> r.outcome,
                 value |-> r.value, names |-> r.names]
  /\ UNCHANGED <<SCORERS, rvars, svars, mvars, tvars, dvars>>

(***************************************************************************)
(* Claims about the metric validator.                                      *)
(***************************************************************************)
\* the list the validator parsed mentions the deprecated name
HasDeprecated(parsed) ==
  parsed.kind = "list" /\ \E j \in DOMAIN parsed.items : parsed.items[j] = Deprecated

\* C9: a parsed list with mean_squared_error in it always raises the error
\* naming the replacement, wherever the name stands and whatever else the
\* list holds, unrecognized names included.
C9_DeprecatedAlwaysRaises ==
  (pret.op = "validate" /\ HasDeprecated(ParseMetrics(pret.metrics))) =>
    /\ pret.outcome = "ValueError: deprecated"
    /\ pret.names = <<"neg_mean_squared_error">>

\* C9 witness: the deprecated name after an unrecognized one
C9_Witness ==
  /\ pret.op = "validate"
  /\ pret.metrics.kind = "list" /\ Len(pret.metrics.items) = 2
  /\ pret.metrics.items[1].text = "bogus"
  /\ pret.metrics.items[2].text = "mean_squared_error"
  /\ pret.outcome = "ValueError: deprecated"

ClassLabels == {1, 2, 3}

\* the labels of a test partition of at most MaxExamples examples
LabelLists == SeqsUpTo(ClassLabels, MaxExamples)

\* the size of the largest training partition
MaxTrainExamples == 2

TrainLabelLists == SeqsUpTo(ClassLabels, MaxTrainExamples)

EmptyDict == [l \in {} |-> 0]

\* np.unique(labels).tolist(): the distinct labels, sorted
NpUnique(labels) == Ascending(Range(labels))

\* learner.train for a classifier: the sorted labels of the training
\* examples and their positions
TrainedLearner(kind, labels) ==
  IF kind = "classifier"
  THEN LET label_list == NpUnique(labels)
       IN [kind |-> kind, label_list |-> label_list,
           label_dict |-> [l \in Range(label_list) |->
                             (CHOOSE i \in DOMAIN label_list : label_list[i] = l) - 1]]
  ELSE [kind |-> kind, label_list |-> <<>>, label_dict |-> EmptyDict]

\* [label for label in test_label_list if label not in learner.label_list]
RECURSIVE NotIn(_, _)
NotIn(test_label_list, label_list) ==
  IF test_label_list = <<>> THEN <<>>
  ELSE (IF Head(test_label_list) \in Range(label_list) THEN <<>>
        ELSE <<Head(test_label_list)>>)
       \o NotIn(Tail(test_label_list), label_list)

\* the unseen labels numbered from 0
UnseenLabelDictFromZero(unseen_test_label_list, label_list) ==
  [l \in Range(unseen_test_label_list) |->
     (CHOOSE i \in DOMAIN unseen_test_label_list : unseen_test_label_list[i] = l) - 1]

\* {label: i for i, label in enumerate(unseen_test_label_list,
\*                                     start=len(learner.label_list))}
UnseenLabelDict(unseen_test_label_list, label_list) ==
  [l \in Range(unseen_test_label_list) |->
     Len(label_list)
     + (CHOOSE i \in DOMAIN unseen_test_label_list : unseen_test_label_list[i] = l) - 1]

\* d.update(e)
DictUpdate(d, e) ==
  [l \in DOMAIN d \cup DOMAIN e |-> IF l \in DOMAIN e THEN e[l] ELSE d[l]]

\* the two dictionaries combined in the learner's own dictionary
CombineInPlace(label_dict, unseen_label_dict) ==
  [own |-> DictUpdate(label_dict, unseen_label_dict),
   merged |-> DictUpdate(label_dict, unseen_label_dict)]

\* train_and_test_label_dict = learner.label_dict.copy(), then update:
\* own is the learner's dictionary afterwards, merged the copy
CombineDicts(label_dict, unseen_label_dict) ==
  [own |-> label_dict, merged |-> DictUpdate(label_dict, unseen_label_dict)]

\* np.array([train_and_test_label_dict[label] for label in labels])
ToIndices(labels, d) == [j \in DOMAIN labels |-> d[labels[j]]]

\* train_and_score(learner, train_examples, test_examples, metric); the
\* labels handed to use_score_func are kept in tret
TrainAndScore(train_labels, test_labels) ==
  /\ LET trained == TrainedLearner(learner.kind, train_labels)
     IN IF trained.kind = "classifier"
        THEN LET test_label_list == NpUnique(test_labels)
                 unseen_test_label_list == NotIn(test_label_list, trained.label_list)
                 unseen_label_dict ==
                   UnseenLabelDict(unseen_test_label_list, trained.label_list)
                 c == CombineDicts(trained.label_dict, unseen_label_dict)
             IN /\ learner' = [trained EXCEPT !.label_dict = c.own]
                /\ tret' = [op |-> "train_and_score", train |-> train_labels,
                            test |-> test_labels, trained |-> trained,
                            dict |-> c.merged,
                            train_labels |-> ToIndices(train_labels, c.merged),
                            test_labels |-> ToIndices(test_labels, c.merged)]
        ELSE /\ learner' = trained
             /\ tret' = [op |-> "train_and_score", train |-> train_labels,
                         test |-> test_labels, trained |-> trained,
                         dict |-> EmptyDict,
                         train_labels |-> train_labels, test_labels |-> test_labels]
  /\ UNCHANGED <<rvars, svars, mvars, pvars, dvars>>

(***************************************************************************)
(* Claims about train_and_score.                                           *)
(***************************************************************************)
\* C11: train_and_score leaves the learner's label_dict and label_list as
\* training left them, also when the test partition has labels the learner
\* never saw: the extension lives in the call's own copy only.
C11_LearnerMappingKept ==
  (tret.op = "train_and_score" /\ learner.kind = "classifier") =>
    /\ learner.label_list = tret.trained.label_list
    /\ learner.label_dict = tret.trained.label_dict
    /\ DOMAIN learner.label_dict = Range(tret.train)
    /\ Range(learner.label_list) = Range(tret.train)
    /\ DOMAIN tret.dict = Range(tret.train) \cup Range(tret.test)

\* C11 witness: a call whose test partition has a label the learner never saw
C11_Witness ==
  /\ tret.op = "train_and_score" /\ learner.kind = "classifier"
  /\ Range(tret.test) \ Range(tret.train) # {}
  /\ DOMAIN tret.dict # DOMAIN learner.label_dict

\* C12: with the n known labels mapped one-to-one onto 0..n-1, the k unseen
\* test labels get n, ..., n+k-1 in sorted order; the merged mapping agrees
\* with the learner's on the known labels, is injective and is defined for
\* every label of the train and the test partition.
C12_UnseenLabelsNumbered ==
  (tret.op = "train_and_score" /\ learner.kind = "classifier") =>
    LET known == Range(tret.trained.label_list)
        n == Cardinality(known)
        unseen == Range(tret.test) \ known
        d == tret.dict
    IN /\ {tret.trained.label_dict[l] : l \in known} = 0..(n - 1)
       /\ \A u \in unseen : d[u] = n + Cardinality({w \in unseen : w < u})
       /\ {d[u] : u \in unseen} = n..(n + Cardinality(unseen) - 1)
       /\ \A l \in known : d[l] = tret.trained.label_dict[l]
       /\ \A l, m \in DOMAIN d : d[l] = d[m] => l = m
       /\ Range(tret.train) \cup Range(tret.test) \subseteq DOMAIN d
       /\ tret.test_labels = [j \in DOMAIN tret.test |-> d[tret.test[j]]]

\* C12 witness: two unseen test labels after one known label
C12_Witness ==
  /\ tret.op = "train_and_score" /\ learner.kind = "classifier"
  /\ tret.train = <<2>> /\ tret.test = <<3, 1>>
  /\ tret.dict[2] = 0 /\ tret.dict[1] = 1 /\ tret.dict[3] = 2

(***************************************************************************)
(* Densifier.  A sparse matrix stores its shape and its nonzero entries;   *)
(* a dense matrix has a value in every cell.                               *)
(***************************************************************************)
CellVals == {0, 1, 2}

Cells(n, m) == (1..n) \X (1..m)

\* the scipy.sparse matrix with the values of f, a function on the cells
Sparse(n, m, f) ==
  [format |-> "sparse", shape |-> <<n, m>>,
   stored |-> {<<c[1], c[2], f[c]>> : c \in {x \in Cells(n, m) : f[x] # 0}}]

\* the sparse matrices of at most dim rows and dim columns
SparseMatrices(dim) ==
  UNION {{Sparse(n, m, f) : f \in [Cells(n, m) -> CellVals]} :
           n \in 1..dim, m \in 1..dim}

\* X.todense()
ToDense(X) ==
  [format |-> "dense", shape |-> X.shape,
   cells |-> [c \in Cells(X.shape[1], X.shape[2]) |->
                IF \E e \in X.stored : e[1] = c[1] /\ e[2] = c[2]
                THEN (CHOOSE e \in X.stored : e[1] = c[1] /\ e[2] = c[2])[3]
                ELSE 0]]

\* what a method returns when it returns self
Self == [format |-> "self"]

\* Densifier.fit(X)
DensifierFit(X) ==
  /\ dret' = [op |-> "fit", X |-> X, value |-> Self]
  /\ UNCHANGED <<densifier, rvars, svars, mvars, pvars, tvars>>

\* Densifier.fit_transform(X)
DensifierFitTransform(X) ==
  /\ dret' = [op |-> "fit_transform", X |-> X, value |-> Self]
  /\ UNCHANGED <<densifier, rvars, svars, mvars, pvars, tvars>>

\* Densifier.transform(X)
DensifierTransform(X) ==
  /\ dret' = [op |-> "transform", X |-> X, value |-> ToDense(X)]
  /\ UNCHANGED <<densifier, rvars, svars, mvars, pvars, tvars>>

(***************************************************************************)
(* Claims about Densifier.                                                 *)
(***************************************************************************)
\* the dense matrix with the shape and the values of the sparse matrix X
IsDenseOf(D, X) ==
  /\ D.format = "dense" /\ D.shape = X.shape
  /\ \A c \in Cells(X.shape[1], X.shape[2]) :
       /\ D.cells[c] # 0 => <<c[1], c[2], D.cells[c]>> \in X.stored
       /\ D.cells[c] = 0 => ~\E e \in X.stored : e[1] = c[1] /\ e[2] = c[2]

\* C13 (as claimed): fit(X) leaves the stage unchanged and returns it,
\* transform(X) returns the dense matrix with X's shape and values, and
\* fit_transform(X) returns what fit(X) followed by transform(X) returns.
C13_DensifierContract ==
  /\ densifier = {}
  /\ dret.op = "fit" => dret.value = Self
  /\ dret.op = "transform" => IsDenseOf(dret.value, dret.X)
  /\ dret.op = "fit_transform" => IsDenseOf(dret.value, dret.X)

(***************************************************************************)
(* Specifications.                                                         *)
(***************************************************************************)
IdleRescaled ==
  /\ cls = [c \in Classes |-> PlainClass]
  /\ applied = [c \in Classes |-> 0]
  /\ est = NoEst
  /\ lastFit = NoCall
  /\ ret = NoCall

IdleSplitter ==
  /\ splitter = NewSplitter({}, SubSeq(IdNames, 1, NumSamples))
  /\ gen = NoGen
  /\ fold = NoCall
  /\ removedEver = FALSE

IdleMetrics ==
  /\ families = MetricFamilies
  /\ mret = NoCall

IdleValidator ==
  /\ SCORERS = ScorerNames
  /\ pret = NoCall

IdleLearner ==
  /\ learner = TrainedLearner("regressor", <<>>)
  /\ tret = NoCall

IdleDensifier ==
  /\ densifier = {}
  /\ dret = NoCall

InitPlain ==
  /\ IdleSplitter /\ IdleMetrics /\ IdleValidator /\ IdleLearner /\ IdleDensifier
  /\ cls = [c \in Classes |-> PlainClass]
  /\ applied = [c \in Classes |-> 0]
  /\ est = NoEst
  /\ lastFit = NoCall
  /\ ret = NoCall

\* the module has applied rescaled to the regressor class once
InitDecorated ==
  /\ IdleSplitter /\ IdleMetrics /\ IdleValidator /\ IdleLearner /\ IdleDensifier
  /\ cls = [c \in Classes |-> IF c = "Reg" THEN WrappedClass(PlainClass) ELSE PlainClass]
  /\ applied = [c \in Classes |-> IF c = "Reg" THEN 1 ELSE 0]
  /\ est = NoEst
  /\ lastFit = NoCall
  /\ ret = NoCall

NextRescaled ==
  \/ \E c \in BOOLEAN, r \in BOOLEAN : Construct(c, r)
  \/ \E c \in BOOLEAN, r \in BOOLEAN : SetParams(c, r)
  \/ \E y \in SeqsUpTo(LabelVals, MaxTrain) : \E y_hat \in TrainPredictions(y) : Fit(y, y_hat)
  \/ \E raw \in SeqsUpTo(PredVals, MaxPred) : Predict(raw)

SpecRescaled == InitDecorated /\ [][NextRescaled]_vars

NextDecorate ==
  \/ \E c \in Classes : Decorate(c)
  \/ \E c \in BOOLEAN, r \in BOOLEAN : Construct(c, r)
  \/ \E y_hat \in TrainPredictions(<<0, 10>>) : Fit(<<0, 10>>, y_hat)
  \/ \E raw \in [1..1 -> PredVals] : Predict(raw)

SpecDecorate == InitPlain /\ [][NextDecorate]_vars

InitSplit ==
  /\ IdleRescaled /\ IdleMetrics /\ IdleValidator /\ IdleLearner /\ IdleDensifier
  /\ \E keep \in SUBSET Range(SubSeq(IdNames, 1, NumSamples)) :
       \E example_ids \in ExampleIdLists :
         splitter = NewSplitter(keep, example_ids)
  /\ gen = NoGen
  /\ fold = NoCall
  /\ removedEver = FALSE

NextSplit ==
  \/ \E groups \in GroupArrays : SplitStart(groups)
  \/ NextFold
  \/ SplitEnd

SpecSplit == InitSplit /\ [][NextSplit]_vars

InitMetrics == IdleRescaled /\ IdleSplitter /\ IdleMetrics /\ IdleValidator /\ IdleLearner /\ IdleDensifier

NextMetrics ==
  \/ \E numbers \in {<<>>} \cup SeqsUpTo(Elements, MaxNumbers) : CallContiguous(numbers)
  \/ \E label_array \in LabelArrays : CallAcceptable(label_array)

SpecMetrics == InitMetrics /\ [][NextMetrics]_vars

NextValidator == \E metrics \in MetricTexts : ParseAndValidateMetrics(metrics)

InitValidator == IdleValidator /\ IdleLearner /\ IdleDensifier /\ IdleRescaled /\ IdleSplitter /\ IdleMetrics

SpecValidator == InitValidator /\ [][NextValidator]_vars

\* a learner of either kind, not yet trained
InitTrainAndScore ==
  /\ IdleRescaled /\ IdleSplitter /\ IdleMetrics /\ IdleValidator /\ IdleDensifier
  /\ \E kind \in {"classifier", "regressor"} :
       learner = [kind |-> kind, label_list |-> <<>>, label_dict |-> EmptyDict]
  /\ tret = NoCall

NextTrainAndScore ==
  \E train_labels \in TrainLabelLists, test_labels \in LabelLists :
    TrainAndScore(train_labels, test_labels)

SpecTrainAndScore == InitTrainAndScore /\ [][NextTrainAndScore]_vars

InitDensifier ==
  /\ IdleRescaled /\ IdleSplitter /\ IdleMetrics /\ IdleValidator /\ IdleLearner
  /\ IdleDensifier

NextDensifier ==
  \/ \E X \in SparseMatrices(MaxDim) : DensifierFit(X)
  \/ \E X \in SparseMatrices(MaxDim) : DensifierTransform(X)
  \/ \E X \in SparseMatrices(MaxDim) : DensifierFitTransform(X)

SpecDensifier == InitDensifier /\ [][NextDensifier]_vars

====
